---------------------------- MODULE Spec2Model ----------------------------
(***************************************************************************)
(* Authenticode parsing core of retdec (fileformat/file_format/pe/         *)
(* authenticode): the Pkcs9CounterSignature constructor as a state machine *)
(* with an explicit call stack, X509Certificate's getters, parseAttributes *)
(* and CertificateProcessor::getChain.                                     *)
(***************************************************************************)
EXTENDS Naturals, Integers, Sequences, FiniteSets, TLC

VARIABLES
    data,           \* bytes handed to the outermost Pkcs9CounterSignature constructor
    certificates,   \* const STACK_OF(X509)* certificates: the pool
    stack,          \* constructor activations, outermost first
    exc,            \* the std::runtime_error in flight ("none" when there is none)
    outcome,        \* of the outermost constructor: running / ok / throw / crash
    result,         \* the constructed object once outcome = "ok"
    heap,           \* one record per PKCS7_SIGNER_INFO that d2i allocated
    raw,            \* X509_NAME* given to parseAttributes
    entry,          \* loop index i of parseAttributes
    attributes,     \* Certificate::Attributes being filled by parseAttributes
    signer,         \* const X509* signer of getChain
    all_certs,      \* const STACK_OF(X509)* all_certs of getChain
    chainPc,        \* position in getChain
    chain,          \* ctx's chain (X509_STORE_CTX_get_chain)
    untrusted,      \* the verification's working copy of all_certs
    is_valid,       \* bool is_valid of getChain
    chainOut,       \* std::vector<X509Certificate> certificates that getChain returns
    cert,           \* const X509* cert of an X509Certificate
    certPc,         \* position in createCertificate
    out_cert        \* Certificate out_cert of createCertificate

csVars == <<data, certificates, stack, exc, outcome, result, heap>>
attrVars == <<raw, entry, attributes>>
chainVars == <<signer, all_certs, chainPc, chain, untrusted, is_valid, chainOut>>
certVars == <<cert, certPc, out_cert>>
vars == <<csVars, attrVars, chainVars, certVars>>

(***************************************************************************)
(* Bounds of the model.                                                    *)
(***************************************************************************)
MaxAttrs == 2       \* authenticated attributes of the outermost SignerInfo
MaxChain == 18      \* levels of the deepest chain of nested counter-signatures
MaxEntries == 2     \* entries of an X509_NAME
MaxPool == 3        \* certificates in the pool given to getChain

(***************************************************************************)
(* ASN.1 values.  The content of an ASN1_STRING-backed value (what its     *)
(* data/length give) is a record: a DER SignerInfo, raw octets or a time.  *)
(***************************************************************************)
NoKey == [issuer |-> "", serial |-> 0]
NoInfo == [ok |-> FALSE, issuer_and_serial |-> NoKey, auth_attr |-> <<>>]

SignerInfoOf(key, attrs) == [ok |-> TRUE, issuer_and_serial |-> key, auth_attr |-> attrs]
Der(si) == [enc |-> "SignerInfo", si |-> si, octets |-> <<>>, time |-> <<>>]
Octets(b) == [enc |-> "octets", si |-> NoInfo, octets |-> b, time |-> <<>>]
UtcTime(t) == [enc |-> "time", si |-> NoInfo, octets |-> <<>>, time |-> t]
EmptyString == Octets(<<>>)

\* ASN1_TYPE: "SEQUENCE", "OCTET_STRING" and "UTCTIME" keep an ASN1_STRING in
\* the value union; "BOOLEAN" keeps an int there.
StringTypes == {"SEQUENCE", "OCTET_STRING", "UTCTIME"}
Asn1Type(type, content) == [type |-> type, value |-> content]
Attribute(nid, set) == [object |-> nid, set |-> set]

NID_pkcs9_countersignature == "countersignature"
NID_pkcs9_contentType == "contentType"
NID_pkcs9_signingTime == "signingTime"
NID_pkcs9_messageDigest == "messageDigest"
NID_other == "SpcSpOpusInfo"


(***************************************************************************)
(* helper.h conversions used by the constructor and the getters.           *)
(***************************************************************************)
HexDigits == <<"0", "1", "2", "3", "4", "5", "6", "7", "8", "9", "A", "B", "C", "D", "E", "F">>

RECURSIVE HexOf(_)
HexOf(bytes) ==
    IF bytes = <<>> THEN ""
    ELSE HexDigits[(Head(bytes) \div 16) + 1] \o HexDigits[(Head(bytes) % 16) + 1]
         \o HexOf(Tail(bytes))

\* The bytes an ASN1_STRING's data/length give: the octets themselves, or the
\* ASCII digits of a time (YYMMDD).
RECURSIVE AsciiDigits(_)
AsciiDigits(t) ==
    IF t = <<>> THEN <<>>
    ELSE <<48 + (Head(t) \div 10), 48 + (Head(t) % 10)>> \o AsciiDigits(Tail(t))

StringBytes(content) ==
    IF content.enc = "time" THEN AsciiDigits(content.time) ELSE content.octets

\* bytesToHexString(data, length): uppercase hex of the bytes.
bytesToHexString(content) == HexOf(StringBytes(content))

\* parseDateTime(ASN1_TIME*): a UTCTime's two-digit year is normalised
\* (below 50: 20YY, else 19YY); anything that is not a time gives the empty string.
parseDateTime(content) ==
    IF content.enc = "time" /\ Len(content.time) = 3
    THEN <<(IF content.time[1] < 50 THEN 2000 ELSE 1900) + content.time[1],
           content.time[2], content.time[3]>>
    ELSE <<>>

(***************************************************************************)
(* Certificates and pools.                                                 *)
(***************************************************************************)
NullCert == 0
X509(id, subject, issuer, serial) ==
    [id |-> id, subject |-> subject, issuer |-> issuer, serial |-> serial]

\* X509_find_by_issuer_and_serial: the first certificate of sk whose issuer
\* and serial equal the key, or NULL.
X509_find_by_issuer_and_serial(sk, key) ==
    LET hits == {k \in 1..Len(sk) : sk[k].issuer = key.issuer /\ sk[k].serial = key.serial}
    IN IF hits = {} THEN NullCert
       ELSE sk[CHOOSE k \in hits : \A m \in hits : k <= m].id

(***************************************************************************)
(* Pkcs9CounterSignature::Pkcs9CounterSignature(data, certificates).       *)
(***************************************************************************)
AllocationFailed == "SignerInfo allocation failed"
SignerNotFound == "Unable to find PKCS9 countersignature certificate"

\* d2i_PKCS7_SIGNER_INFO(nullptr, &data_ptr, data.size())
d2i_PKCS7_SIGNER_INFO(bytes) ==
    IF bytes.enc = "SignerInfo" /\ bytes.si.ok THEN bytes.si ELSE NoInfo

\* An activation of the constructor: its arguments, its locals and the
\* members of the object under construction.
NewFrame(bytes, pool) ==
    [data |-> bytes, certificates |-> pool, pc |-> "d2i", countersignInfo |-> 0,
     info |-> NoInfo, i |-> 1, signerCert |-> NullCert, signingTime |-> <<>>,
     digest |-> "", counterSignatures |-> <<>>]

\* The members of a constructed Pkcs9CounterSignature.
ObjectOf(f) ==
    [signerCert |-> f.signerCert, signingTime |-> f.signingTime, digest |-> f.digest,
     counterSignatures |-> f.counterSignatures]

NoObject ==
    [signerCert |-> NullCert, signingTime |-> <<>>, digest |-> "", counterSignatures |-> <<>>]

OthersIdle == UNCHANGED <<attrVars, chainVars, certVars>>

Top == stack[Len(stack)]
Pop(s) == SubSeq(s, 1, Len(s) - 1)
SetTop(f) == [stack EXCEPT ![Len(stack)] = f]
Running == outcome = "running" /\ exc = "none" /\ stack # <<>>

\* What attr_type->value.<string member> gives (lines 43, 50, 60, 70):
\* X509_ATTRIBUTE_get0_type(attribute, 0) is NULL for an empty value set, and
\* the dereference is a crash; a value that keeps no ASN1_STRING in the union
\* is read through the wrong member: a crash, or a string of length 0.
CrashRead == [crash |-> TRUE, content |-> EmptyString]
ReadString(attribute) ==
    IF attribute.set = <<>> THEN {CrashRead}
    ELSE IF attribute.set[1].type \in StringTypes
         THEN {[crash |-> FALSE, content |-> attribute.set[1].value]}
         ELSE {CrashRead, [crash |-> FALSE, content |-> EmptyString]}

\* The process dies in the middle of the loop.
Crash ==
    /\ outcome' = "crash"
    /\ UNCHANGED <<data, certificates, stack, exc, result, heap>>

\* The top activation exits by the exception msg: its frame goes, and the
\* PKCS7_SIGNER_INFO it holds (if any) stays as it is.
ExitByException(msg) ==
    /\ exc' = msg
    /\ stack' = Pop(stack)
    /\ heap' = IF Top.countersignInfo = 0 THEN heap
               ELSE [heap EXCEPT ![Top.countersignInfo].exited = TRUE]
    /\ outcome' = IF Len(stack) = 1 THEN "throw" ELSE outcome
    /\ UNCHANGED <<data, certificates, result>>

\* Lines 26-30.
Decode ==
    /\ Running
    /\ Top.pc = "d2i"
    /\ LET countersignInfo == d2i_PKCS7_SIGNER_INFO(Top.data) IN
       IF ~countersignInfo.ok
       THEN ExitByException(AllocationFailed)
       ELSE /\ heap' = Append(heap, [freed |-> 0, exited |-> FALSE])
            /\ stack' = SetTop([Top EXCEPT !.pc = "find", !.info = countersignInfo,
                                           !.countersignInfo = Len(heap) + 1])
            /\ UNCHANGED <<data, certificates, exc, outcome, result>>
    /\ OthersIdle

\* Lines 33-38.
FindSigner ==
    /\ Running
    /\ Top.pc = "find"
    /\ LET signerCert == X509_find_by_issuer_and_serial(Top.certificates,
                                                        Top.info.issuer_and_serial) IN
       IF signerCert = NullCert
       THEN ExitByException(SignerNotFound)
       ELSE /\ stack' = SetTop([Top EXCEPT !.pc = "loop", !.signerCert = signerCert])
            /\ UNCHANGED <<data, certificates, exc, outcome, result, heap>>
    /\ OthersIdle

InLoop == Running /\ Top.pc = "loop" /\ Top.i <= Len(Top.info.auth_attr)
CurrentAttribute == Top.info.auth_attr[Top.i]

\* The arguments of counterSignatures.emplace_back(data, certificates), line 52.
ChildFrame(f, bytes) == NewFrame(bytes, f.certificates)

\* Lines 49-53: the child's constructor starts; emplace_back completes in Return.
AttrCounterSignature ==
    /\ InLoop
    /\ CurrentAttribute.object = NID_pkcs9_countersignature
    /\ \E r \in ReadString(CurrentAttribute) :
          IF r.crash THEN Crash
          ELSE /\ stack' = Append(stack, ChildFrame(Top, r.content))
               /\ UNCHANGED <<data, certificates, exc, outcome, result, heap>>
    /\ OthersIdle

\* Lines 54-56.
AttrContentType ==
    /\ InLoop
    /\ CurrentAttribute.object = NID_pkcs9_contentType
    /\ stack' = SetTop([Top EXCEPT !.i = @ + 1])
    /\ UNCHANGED <<data, certificates, exc, outcome, result, heap>>
    /\ OthersIdle

\* Line 60.
SetSigningTime(f, value) == [f EXCEPT !.signingTime = parseDateTime(value)]

\* Lines 59-61.
AttrSigningTime ==
    /\ InLoop
    /\ CurrentAttribute.object = NID_pkcs9_signingTime
    /\ \E r \in ReadString(CurrentAttribute) :
          IF r.crash THEN Crash
          ELSE /\ stack' = SetTop([SetSigningTime(Top, r.content) EXCEPT !.i = @ + 1])
               /\ UNCHANGED <<data, certificates, exc, outcome, result, heap>>
    /\ OthersIdle

\* Line 70.
DigestClobbersSigningTime(f, value) ==
    [f EXCEPT !.digest = bytesToHexString(value), !.signingTime = <<>>]
SetDigest(f, value) == [f EXCEPT !.digest = bytesToHexString(value)]

\* Lines 69-71.
AttrMessageDigest ==
    /\ InLoop
    /\ CurrentAttribute.object = NID_pkcs9_messageDigest
    /\ \E r \in ReadString(CurrentAttribute) :
          IF r.crash THEN Crash
          ELSE /\ stack' = SetTop([SetDigest(Top, r.content) EXCEPT !.i = @ + 1])
               /\ UNCHANGED <<data, certificates, exc, outcome, result, heap>>
    /\ OthersIdle

\* No branch of lines 49-71 matches: the next iteration.
AttrOther ==
    /\ InLoop
    /\ CurrentAttribute.object \notin {NID_pkcs9_countersignature, NID_pkcs9_contentType,
                                       NID_pkcs9_signingTime, NID_pkcs9_messageDigest}
    /\ stack' = SetTop([Top EXCEPT !.i = @ + 1])
    /\ UNCHANGED <<data, certificates, exc, outcome, result, heap>>
    /\ OthersIdle

\* std::vector::emplace_back of the finished child, line 52.
PrependChild(children, child) == <<child>> \o children
EmplaceBack(children, child) == Append(children, child)

\* Lines 74-75: PKCS7_SIGNER_INFO_free and the constructor's normal return;
\* a child's return completes the parent's emplace_back and its iteration.
Return ==
    /\ Running
    /\ Top.pc = "loop"
    /\ Top.i > Len(Top.info.auth_attr)
    /\ heap' = [heap EXCEPT ![Top.countersignInfo] =
                   [freed |-> @.freed + 1, exited |-> TRUE]]
    /\ IF Len(stack) = 1
       THEN /\ stack' = <<>>
            /\ outcome' = "ok"
            /\ result' = ObjectOf(Top)
       ELSE LET parent == stack[Len(stack) - 1] IN
            /\ stack' = Append(SubSeq(stack, 1, Len(stack) - 2),
                               [parent EXCEPT !.i = @ + 1,
                                   !.counterSignatures = EmplaceBack(@, ObjectOf(Top))])
            /\ UNCHANGED <<outcome, result>>
    /\ UNCHANGED <<data, certificates, exc>>
    /\ OthersIdle

\* An exception leaves a child's constructor at line 52 and there is no
\* handler in the enclosing constructor: that activation exits by it too.
Unwind ==
    /\ outcome = "running"
    /\ exc # "none"
    /\ stack # <<>>
    /\ ExitByException(exc)
    /\ OthersIdle

(***************************************************************************)
(* parseAttributes(X509_NAME* raw), x509_certificate.cpp.                  *)
(***************************************************************************)
\* Certificate::Attributes attributes; every member a default std::string.
DefaultAttributes ==
    [country |-> "", organization |-> "", organizationalUnit |-> "",
     nameQualifier |-> "", state |-> "", commonName |-> "", serialNumber |-> "",
     locality |-> "", title |-> "", surname |-> "", givenName |-> "",
     initials |-> "", pseudonym |-> "", generationQualifier |-> "",
     emailAddress |-> ""]

\* The chain of comparisons of lines 85-114 for one entry (key, value).
KeepFirst(attrs, key, value) ==
    LET member ==
            CASE key = "C" -> "country"
              [] key = "O" -> "organization"
              [] key = "OU" -> "organizationalUnit"
              [] key = "dnQualifier" -> "nameQualifier"
              [] key = "ST" -> "state"
              [] key = "CN" -> "commonName"
              [] key = "serialNumber" -> "serialNumber"
              [] key = "L" -> "locality"
              [] key = "title" -> "title"
              [] key = "SN" -> "surname"
              [] key = "GN" -> "givenName"
              [] key = "initials" -> "initials"
              [] key = "pseudonym" -> "pseudonym"
              [] key = "generationQualifier" -> "generationQualifier"
              [] key = "emailAddress" -> "emailAddress"
              [] OTHER -> ""
    IN IF member = "" THEN attrs
       ELSE IF attrs[member] # "" THEN attrs
       ELSE [attrs EXCEPT ![member] = value]

SetAttribute(attrs, key, value) ==
    IF key = "C" THEN [attrs EXCEPT !.country = value]
    ELSE IF key = "O" THEN [attrs EXCEPT !.organization = value]
    ELSE IF key = "OU" THEN [attrs EXCEPT !.organizationalUnit = value]
    ELSE IF key = "dnQualifier" THEN [attrs EXCEPT !.nameQualifier = value]
    ELSE IF key = "ST" THEN [attrs EXCEPT !.state = value]
    ELSE IF key = "CN" THEN [attrs EXCEPT !.commonName = value]
    ELSE IF key = "serialNumber" THEN [attrs EXCEPT !.serialNumber = value]
    ELSE IF key = "L" THEN [attrs EXCEPT !.locality = value]
    ELSE IF key = "title" THEN [attrs EXCEPT !.title = value]
    ELSE IF key = "SN" THEN [attrs EXCEPT !.surname = value]
    ELSE IF key = "GN" THEN [attrs EXCEPT !.givenName = value]
    ELSE IF key = "initials" THEN [attrs EXCEPT !.initials = value]
    ELSE IF key = "pseudonym" THEN [attrs EXCEPT !.pseudonym = value]
    ELSE IF key = "generationQualifier" THEN [attrs EXCEPT !.generationQualifier = value]
    ELSE IF key = "emailAddress" THEN [attrs EXCEPT !.emailAddress = value]
    ELSE attrs

\* The whole function: the loop of lines 75-115 over the entries in order.
RECURSIVE ParseFrom(_, _)
ParseFrom(attrs, entries) ==
    IF entries = <<>> THEN attrs
    ELSE ParseFrom(SetAttribute(attrs, Head(entries).key, Head(entries).value), Tail(entries))

parseAttributes(name) == ParseFrom(DefaultAttributes, name)

CsIdle ==
    /\ data = EmptyString /\ certificates = <<>> /\ stack = <<>> /\ exc = "none"
    /\ outcome = "idle" /\ result = NoObject /\ heap = <<>>

\* One iteration of the loop, lines 75-115.
NameEntry ==
    /\ entry >= 1
    /\ entry <= Len(raw)
    /\ attributes' = SetAttribute(attributes, raw[entry].key, raw[entry].value)
    /\ entry' = entry + 1
    /\ UNCHANGED <<raw, csVars, chainVars, certVars>>

\* OBJ_nid2sn(OBJ_obj2nid(...)) of the entries: the recognized short names and
\* two others ("UNDEF" is the short name of an unknown object).
ShortNames ==
    {"C", "O", "OU", "dnQualifier", "ST", "CN", "serialNumber", "L", "title", "SN",
     "GN", "initials", "pseudonym", "generationQualifier", "emailAddress"}
NameEntries == [key : ShortNames \cup {"UNDEF", "DC"}, value : {"x", "y"}]

(***************************************************************************)
(* CertificateProcessor::getChain(signer, all_certs), x509_certificate.cpp.*)
(* The trust store is the empty X509_STORE of the constructor (lines       *)
(* 214-220); nothing in the class adds to it.                              *)
(***************************************************************************)
NoX509 == X509(0, "", "", 0)

\* cert_self_signed / X509_check_issued as the verification uses them: names.
SelfSigned(x) == x.subject = x.issuer
Issued(issuer, x) == issuer.subject = x.issuer

InChain(c, x) == \E k \in 1..Len(c) : c[k] = x

\* The certificates of sk that X509_verify_cert may take as the issuer of the
\* chain's last element: they issue it and are not in the chain already.
Candidates(c, sk) ==
    {k \in 1..Len(sk) : Issued(sk[k], c[Len(c)]) /\ ~InChain(c, sk[k])}

Remove(sk, k) == SubSeq(sk, 1, k - 1) \o SubSeq(sk, k + 1, Len(sk))

ChainFrame == UNCHANGED <<csVars, attrVars, certVars>>

\* Lines 226-228.
GetChainNoSigner ==
    /\ chainPc = "start"
    /\ signer = NoX509
    /\ chainOut' = <<>>
    /\ chainPc' = "done"
    /\ UNCHANGED <<signer, all_certs, chain, untrusted, is_valid>>
    /\ ChainFrame

\* Line 230: X509_STORE_CTX_init; verification starts from the signer alone.
StoreCtxInit ==
    /\ chainPc = "start"
    /\ signer # NoX509
    /\ chain' = <<signer>>
    /\ untrusted' = all_certs
    /\ chainPc' = "verify"
    /\ UNCHANGED <<signer, all_certs, is_valid, chainOut>>
    /\ ChainFrame

\* Line 231, X509_verify_cert building the chain: an issuer found among the
\* untrusted certificates is pushed and dropped from further consideration.
VerifyExtend ==
    /\ chainPc = "verify"
    /\ ~SelfSigned(chain[Len(chain)])
    /\ \E k \in Candidates(chain, untrusted) :
          /\ chain' = Append(chain, untrusted[k])
          /\ untrusted' = Remove(untrusted, k)
    /\ UNCHANGED <<signer, all_certs, chainPc, is_valid, chainOut>>
    /\ ChainFrame

\* Line 231, the end of X509_verify_cert: no further issuer, and no trust
\* anchor in the empty store, so the verification does not return 1.
VerifyEnd ==
    /\ chainPc = "verify"
    /\ SelfSigned(chain[Len(chain)]) \/ Candidates(chain, untrusted) = {}
    /\ is_valid' = FALSE
    /\ chainPc' = "collect"
    /\ UNCHANGED <<signer, all_certs, chain, untrusted, chainOut>>
    /\ ChainFrame

\* Lines 232-240: the vector built from X509_STORE_CTX_get_chain.
OnlyValidChain(valid, c) == IF valid THEN c ELSE <<>>
CollectChain(valid, c) == c

GetChainReturn ==
    /\ chainPc = "collect"
    /\ chainOut' = CollectChain(is_valid, chain)
    /\ chainPc' = "done"
    /\ UNCHANGED <<signer, all_certs, chain, untrusted, is_valid>>
    /\ ChainFrame

\* Certificates by name: a leaf, its CA (twice, with different issuers), a
\* self-signed root, and two certificates that name each other as issuer.
Leaf == X509(1, "leaf", "ca", 11)
Ca == X509(2, "ca", "root", 12)
CaOther == X509(3, "ca", "elsewhere", 13)
Root == X509(4, "root", "root", 14)
Ping == X509(5, "ping", "pong", 15)
Pong == X509(6, "pong", "ping", 16)
ChainCerts == {Leaf, Ca, CaOther, Root, Ping, Pong}

Injective(seq) == \A j, k \in 1..Len(seq) : j # k => seq[j] # seq[k]
ChainPools == {sk \in UNION {[1..n -> ChainCerts] : n \in 0..MaxPool} : Injective(sk)}

(***************************************************************************)
(* X509Certificate's getters and createCertificate, x509_certificate.cpp.  *)
(* A parsed certificate: serial (big-endian bytes of the INTEGER), sigalg  *)
(* (the OID of tbsCertificate.signature), notBefore / notAfter, the names, *)
(* pkey (what X509_get0_pubkey gives: NoPKey is NULL) and its DER bytes.   *)
(***************************************************************************)
NoPKey == [nid |-> "", spki |-> <<>>]
ParsedCert(serial, sigalg, notBefore, notAfter, subject, issuer, pkey, der) ==
    [serial |-> serial, sigalg |-> sigalg, notBefore |-> notBefore, notAfter |-> notAfter,
     subject |-> subject, issuer |-> issuer, pkey |-> pkey, der |-> der]
NoParsedCert == ParsedCert(<<>>, "", EmptyString, EmptyString, <<>>, <<>>, NoPKey, <<>>)

\* ASN1_INTEGER_to_BN: the number the bytes denote.
RECURSIVE ASN1_INTEGER_to_BN(_)
ASN1_INTEGER_to_BN(bytes) ==
    IF bytes = <<>> THEN 0
    ELSE ASN1_INTEGER_to_BN(SubSeq(bytes, 1, Len(bytes) - 1)) * 256 + bytes[Len(bytes)]

\* BN_print: uppercase hex without leading zeros, "0" for zero.
RECURSIVE BN_print(_)
BN_print(n) ==
    IF n < 16 THEN HexDigits[n + 1] ELSE BN_print(n \div 16) \o HexDigits[(n % 16) + 1]

\* Lines 25-39.
getSerialNumber(c) == BN_print(ASN1_INTEGER_to_BN(c.serial))

\* OBJ_obj2txt(name, 255, obj, 0): the object's name when the library knows
\* one, else its dotted form.
OBJ_obj2txt(oid) ==
    IF oid = "1.2.840.113549.1.1.11" THEN "sha256WithRSAEncryption"
    ELSE IF oid = "1.2.840.113549.1.1.5" THEN "sha1WithRSAEncryption"
    ELSE oid

\* Lines 41-47.
getSignatureAlgorithm(c) == OBJ_obj2txt(c.sigalg)

\* Lines 49-57.
getValidSince(c) == parseDateTime(c.notBefore)
getValidUntil(c) == parseDateTime(c.notAfter)

\* Lines 120-127.
getSubject(c) == parseAttributes(c.subject)
getIssuer(c) == parseAttributes(c.issuer)

Base64Alphabet ==
    <<"A", "B", "C", "D", "E", "F", "G", "H", "I", "J", "K", "L", "M", "N", "O", "P",
      "Q", "R", "S", "T", "U", "V", "W", "X", "Y", "Z", "a", "b", "c", "d", "e", "f",
      "g", "h", "i", "j", "k", "l", "m", "n", "o", "p", "q", "r", "s", "t", "u", "v",
      "w", "x", "y", "z", "0", "1", "2", "3", "4", "5", "6", "7", "8", "9", "+", "/">>

\* Base64 of a byte string whose length is a multiple of 3.
RECURSIVE Base64(_)
Base64(bytes) ==
    IF Len(bytes) < 3 THEN ""
    ELSE LET n == bytes[1] * 65536 + bytes[2] * 256 + bytes[3] IN
         Base64Alphabet[(n \div 262144) + 1] \o Base64Alphabet[((n \div 4096) % 64) + 1]
         \o Base64Alphabet[((n \div 64) % 64) + 1] \o Base64Alphabet[(n % 64) + 1]
         \o Base64(SubSeq(bytes, 4, Len(bytes)))

\* PEM_write_bio_PUBKEY(memBio, pkey): the lines written to the BIO; nothing
\* is written for a NULL key.
PEM_write_bio_PUBKEY(pkey) ==
    IF pkey = NoPKey THEN <<>>
    ELSE <<"-----BEGIN PUBLIC KEY-----", Base64(pkey.spki), "-----END PUBLIC KEY-----">>

\* parsePublicKey(BIO*): the body between the PEM header and footer.
parsePublicKey(bio) ==
    IF Len(bio) >= 3 /\ bio[1] = "-----BEGIN PUBLIC KEY-----" THEN bio[2] ELSE ""

\* Lines 129-140.
getPublicKey(c) == parsePublicKey(PEM_write_bio_PUBKEY(c.pkey))

\* Lines 142-150.
getPublicKeyAlgorithm(c) == IF c.pkey = NoPKey THEN "unknown" ELSE c.pkey.nid

\* calculateDigest(md, data, len, out): a digest of the DER encoding, kept
\* abstract as a checksum of the digest's name and the bytes.
RECURSIVE Sum(_)
Sum(bytes) == IF bytes = <<>> THEN 0 ELSE Head(bytes) + Sum(Tail(bytes))
calculateDigest(md, bytes) ==
    IF md = "sha1" THEN <<(Sum(bytes) + 1) % 256>>
    ELSE <<(Sum(bytes) + 2) % 256, (Sum(bytes) * 31) % 256>>

\* Lines 152-179.
getSha1(c) == HexOf(calculateDigest("sha1", c.der))
getSha256(c) == HexOf(calculateDigest("sha256", c.der))

\* X509NameToString: the entries as key=value, joined by ",".
RECURSIVE X509NameToString(_)
X509NameToString(name) ==
    IF name = <<>> THEN ""
    ELSE Head(name).key \o "=" \o Head(name).value
         \o (IF Len(name) > 1 THEN "," ELSE "") \o X509NameToString(Tail(name))

\* Lines 186-194.
getRawSubject(c) == X509NameToString(c.subject)
getRawIssuer(c) == X509NameToString(c.issuer)

\* Certificate out_cert; (line 198).
NoCertificate ==
    [issuerRaw |-> "", subjectRaw |-> "", issuer |-> DefaultAttributes,
     subject |-> DefaultAttributes, publicKey |-> "", publicKeyAlgo |-> "",
     signatureAlgo |-> "", serialNumber |-> "", sha1Digest |-> "", sha256Digest |-> "",
     validSince |-> <<>>, validUntil |-> <<>>]

CertFrame == UNCHANGED <<cert, csVars, attrVars, chainVars>>

\* Lines 199-202.
CreateNames ==
    /\ certPc = "names"
    /\ out_cert' = [out_cert EXCEPT !.issuerRaw = getRawIssuer(cert),
                                    !.subjectRaw = getRawSubject(cert),
                                    !.issuer = getIssuer(cert),
                                    !.subject = getSubject(cert)]
    /\ certPc' = "key"
    /\ CertFrame

\* Lines 203-204.
CreateKey ==
    /\ certPc = "key"
    /\ out_cert' = [out_cert EXCEPT !.publicKey = getPublicKey(cert),
                                    !.publicKeyAlgo = getPublicKeyAlgorithm(cert)]
    /\ certPc' = "signature"
    /\ CertFrame

\* Lines 205-206.
CreateSignature ==
    /\ certPc = "signature"
    /\ out_cert' = [out_cert EXCEPT !.signatureAlgo = getSignatureAlgorithm(cert),
                                    !.serialNumber = getSerialNumber(cert)]
    /\ certPc' = "digests"
    /\ CertFrame

\* Lines 207-208.
CreateDigests ==
    /\ certPc = "digests"
    /\ out_cert' = [out_cert EXCEPT !.sha1Digest = getSha1(cert),
                                    !.sha256Digest = getSha256(cert)]
    /\ certPc' = "validity"
    /\ CertFrame

\* Lines 209-211.
CreateValidity ==
    /\ certPc = "validity"
    /\ out_cert' = [out_cert EXCEPT !.validSince = getValidSince(cert),
                                    !.validUntil = getValidUntil(cert)]
    /\ certPc' = "done"
    /\ CertFrame

(***************************************************************************)
(* Inputs of the constructor.                                              *)
(***************************************************************************)
K1 == [issuer |-> "CA1", serial |-> 1]
K3 == [issuer |-> "CA2", serial |-> 7]
Kx == [issuer |-> "CA9", serial |-> 9]

Cert1 == X509(1, "TSA1", "CA1", 1)
Cert2 == X509(2, "TSA1b", "CA1", 1)
Cert3 == X509(3, "TSA2", "CA2", 7)
Pools == {<<Cert1, Cert2, Cert3>>, <<Cert2, Cert1>>, <<Cert3>>}

Time1 == <<49, 12, 31>>
Time2 == <<50, 1, 2>>
Digest1 == <<171, 5>>
Digest2 == <<0, 255, 16>>

CounterSignatureOf(si) ==
    Attribute(NID_pkcs9_countersignature, <<Asn1Type("SEQUENCE", Der(si))>>)
SigningTimeOf(t) == Attribute(NID_pkcs9_signingTime, <<Asn1Type("UTCTIME", UtcTime(t))>>)
MessageDigestOf(d) == Attribute(NID_pkcs9_messageDigest, <<Asn1Type("OCTET_STRING", Octets(d))>>)

\* SignerInfos carried by countersignature attributes of the outermost one.
Children ==
    { NoInfo,
      SignerInfoOf(Kx, <<>>),
      SignerInfoOf(K1, <<SigningTimeOf(Time2)>>),
      SignerInfoOf(K3, <<MessageDigestOf(Digest2)>>),
      SignerInfoOf(K1, <<CounterSignatureOf(SignerInfoOf(K3, <<SigningTimeOf(Time1)>>))>>),
      SignerInfoOf(K3, <<CounterSignatureOf(SignerInfoOf(Kx, <<>>))>>) }

PlainAttributes ==
    { Attribute(NID_pkcs9_contentType, <<Asn1Type("OBJECT", EmptyString)>>),
      SigningTimeOf(Time1), SigningTimeOf(Time2),
      Attribute(NID_pkcs9_signingTime, <<>>),
      Attribute(NID_pkcs9_signingTime, <<Asn1Type("BOOLEAN", EmptyString)>>),
      Attribute(NID_pkcs9_signingTime, <<Asn1Type("OCTET_STRING", Octets(Digest1))>>),
      MessageDigestOf(Digest1), MessageDigestOf(Digest2),
      Attribute(NID_pkcs9_messageDigest, <<>>),
      Attribute(NID_pkcs9_messageDigest, <<Asn1Type("UTCTIME", UtcTime(Time1))>>),
      Attribute(NID_other, <<Asn1Type("OCTET_STRING", Octets(Digest1))>>),
      Attribute(NID_other, <<>>) }

CounterSignatureAttributes ==
    { CounterSignatureOf(si) : si \in Children }
    \cup { Attribute(NID_pkcs9_countersignature, <<>>),
           Attribute(NID_pkcs9_countersignature, <<Asn1Type("BOOLEAN", EmptyString)>>),
           Attribute(NID_pkcs9_countersignature, <<Asn1Type("OCTET_STRING", Octets(Digest1))>>) }

Attributes == PlainAttributes \cup CounterSignatureAttributes

SeqsUpTo(S, n) == UNION {[1..k -> S] : k \in 0..n}

\* A chain of n SignerInfos, each the countersignature of the one before.
RECURSIVE Nested(_)
Nested(n) ==
    IF n <= 1 THEN SignerInfoOf(K3, <<SigningTimeOf(Time1)>>)
    ELSE SignerInfoOf(K3, <<CounterSignatureOf(Nested(n - 1))>>)

Inputs ==
    { Der(SignerInfoOf(key, attrs)) : key \in {K1, Kx}, attrs \in SeqsUpTo(Attributes, MaxAttrs) }
    \cup { Der(Nested(n)) : n \in 1..MaxChain }
    \cup { Der(NoInfo), Octets(Digest1) }

(***************************************************************************)
(* Inputs of createCertificate: keys that decode and one that does not.    *)
(***************************************************************************)
RsaKey == [nid |-> "rsaEncryption", spki |-> <<48, 130, 1>>]
EcKey == [nid |-> "id-ecPublicKey", spki |-> <<48, 89, 48, 19, 6, 7>>]
SubjectNames ==
    { <<[key |-> "CN", value |-> "x"]>>,
      <<[key |-> "C", value |-> "y"], [key |-> "CN", value |-> "x"], [key |-> "CN", value |-> "y"]>> }
ParsedCerts ==
    { ParsedCert(serial, sigalg, UtcTime(Time1), UtcTime(notAfter), subject,
                 <<[key |-> "O", value |-> "y"]>>, pkey, serial \o <<48>>) :
        serial \in {<<0, 165>>, <<18, 52, 86>>},
        sigalg \in {"1.2.840.113549.1.1.11", "1.2.3.4"},
        notAfter \in {Time1, Time2},
        subject \in SubjectNames,
        pkey \in {NoPKey, RsaKey, EcKey} }

NoName == <<>>

AttrIdle == raw = NoName /\ entry = 0 /\ attributes = DefaultAttributes
ChainIdle ==
    /\ signer = NoX509 /\ all_certs = <<>> /\ chainPc = "idle" /\ chain = <<>>
    /\ untrusted = <<>> /\ is_valid = FALSE /\ chainOut = <<>>
CertIdle == cert = NoParsedCert /\ certPc = "idle" /\ out_cert = NoCertificate

Init ==
    /\ data \in Inputs
    /\ certificates \in Pools
    /\ stack = <<NewFrame(data, certificates)>>
    /\ exc = "none"
    /\ outcome = "running"
    /\ result = NoObject
    /\ heap = <<>>
    /\ AttrIdle /\ ChainIdle /\ CertIdle

Next ==
    \/ Decode
    \/ FindSigner
    \/ AttrCounterSignature
    \/ AttrContentType
    \/ AttrSigningTime
    \/ AttrMessageDigest
    \/ AttrOther
    \/ Return
    \/ Unwind

Spec == Init /\ [][Next]_vars

InitAttributes ==
    /\ raw \in SeqsUpTo(NameEntries, MaxEntries)
    /\ entry = 1
    /\ attributes = DefaultAttributes
    /\ CsIdle /\ ChainIdle /\ CertIdle

NextAttributes == NameEntry

SpecAttributes == InitAttributes /\ [][NextAttributes]_vars

InitChain ==
    /\ signer \in ChainCerts \cup {NoX509}
    /\ all_certs \in ChainPools
    /\ chainPc = "start"
    /\ chain = <<>>
    /\ untrusted = <<>>
    /\ is_valid = FALSE
    /\ chainOut = <<>>
    /\ CsIdle /\ AttrIdle /\ CertIdle

NextChain ==
    \/ GetChainNoSigner
    \/ StoreCtxInit
    \/ VerifyExtend
    \/ VerifyEnd
    \/ GetChainReturn

SpecChain == InitChain /\ [][NextChain]_vars

InitCertificate ==
    /\ cert \in ParsedCerts
    /\ certPc = "names"
    /\ out_cert = NoCertificate
    /\ CsIdle /\ AttrIdle /\ ChainIdle

NextCertificate ==
    \/ CreateNames
    \/ CreateKey
    \/ CreateSignature
    \/ CreateDigests
    \/ CreateValidity

SpecCertificate == InitCertificate /\ [][NextCertificate]_vars


(***************************************************************************)
(* Claims about the Pkcs9CounterSignature constructor.                     *)
(***************************************************************************)
\* The depth limit the specification asks for.
MAX_DEPTH == 16

RootInfo == d2i_PKCS7_SIGNER_INFO(data)
RootResolves ==
    /\ RootInfo.ok
    /\ \E k \in 1..Len(certificates) :
          /\ certificates[k].issuer = RootInfo.issuer_and_serial.issuer
          /\ certificates[k].serial = RootInfo.issuer_and_serial.serial

\* C1: whatever the bytes and the pool, no exception leaves the outermost
\* Pkcs9CounterSignature constructor: an undecodable SignerInfo and a signer
\* missing from the pool end in an error value, never in a propagating throw.
C1_NoExceptionEscapes == outcome # "throw"

\* C2: a counter-signature whose signer is not in the pool aborts alone: the
\* outermost construction ends by the "signer not found" exception only when
\* its own signer is the one that is missing, never because of a child's.
C2_OnlyFailingChildDropped ==
    (outcome = "throw" /\ exc = SignerNotFound) => ~RootResolves

\* C3: no Pkcs9CounterSignature constructor is ever active more than 16
\* levels deep.
C3_DepthLimited == Len(stack) <= MAX_DEPTH

\* C4: the constructor never crashes on an attribute, whatever its value set
\* holds (no value at index 0, a value of another ASN.1 type).
C4_NoCrash == outcome # "crash"

\* C10: every PKCS7_SIGNER_INFO that d2i allocated is freed at most once, and
\* exactly once by the time the constructor that decoded it has exited.
C10_SignerInfoReleasedOnce ==
    \A h \in 1..Len(heap) :
        /\ heap[h].freed <= 1
        /\ heap[h].exited => heap[h].freed = 1

\* The attributes of seq with the given OID, in their order.
RECURSIVE AttributesWith(_, _)
AttributesWith(seq, nid) ==
    IF seq = <<>> THEN <<>>
    ELSE IF Head(seq).object = nid THEN <<Head(seq)>> \o AttributesWith(Tail(seq), nid)
         ELSE AttributesWith(Tail(seq), nid)

FirstMatch(pool, key) ==
    LET hits == {k \in 1..Len(pool) : pool[k].issuer = key.issuer /\ pool[k].serial = key.serial}
    IN pool[CHOOSE k \in hits : \A m \in hits : k <= m].id

\* The counter-signature that a well-formed SignerInfo denotes over a pool.
RECURSIVE Denoted(_, _)
Denoted(si, pool) ==
    LET times == AttributesWith(si.auth_attr, NID_pkcs9_signingTime)
        digests == AttributesWith(si.auth_attr, NID_pkcs9_messageDigest)
        nested == AttributesWith(si.auth_attr, NID_pkcs9_countersignature)
    IN [signerCert |-> FirstMatch(pool, si.issuer_and_serial),
        signingTime |-> IF times = <<>> THEN <<>>
                        ELSE parseDateTime(times[Len(times)].set[1].value),
        digest |-> IF digests = <<>> THEN ""
                   ELSE bytesToHexString(digests[Len(digests)].set[1].value),
        counterSignatures |-> [k \in 1..Len(nested) |-> Denoted(nested[k].set[1].value.si, pool)]]

\* C8: in a constructed counter-signature the children are the
\* counter-signatures of the countersignature attributes, one per attribute,
\* in the attributes' order, each resolved against the parent's pool.
C8_ChildrenInAttributeOrder ==
    outcome = "ok" =>
        LET nested == AttributesWith(RootInfo.auth_attr, NID_pkcs9_countersignature) IN
        /\ Len(result.counterSignatures) = Len(nested)
        /\ \A k \in 1..Len(nested) :
              result.counterSignatures[k] = Denoted(nested[k].set[1].value.si, certificates)

C8_Witness ==
    /\ outcome = "ok"
    /\ Len(result.counterSignatures) = 2
    /\ result.counterSignatures[1] # result.counterSignatures[2]
    /\ result.counterSignatures[2].counterSignatures # <<>>
    /\ Len(certificates) > 1 /\ result.counterSignatures[1].signerCert = certificates[1].id

\* One iteration of the loop that stays in the same activation.
SameActivation ==
    /\ InLoop
    /\ outcome' = "running" /\ exc' = "none"
    /\ Len(stack') = Len(stack)
HasString(attribute) == attribute.set # <<>> /\ attribute.set[1].type \in StringTypes

C9_Iteration ==
    SameActivation =>
        LET a == CurrentAttribute
            f == Top
            g == Top'
        IN /\ g.signerCert = f.signerCert
           /\ g.counterSignatures = f.counterSignatures
           /\ a.object = NID_pkcs9_signingTime =>
                 /\ g.digest = f.digest
                 /\ HasString(a) => g.signingTime = parseDateTime(a.set[1].value)
           /\ a.object = NID_pkcs9_messageDigest =>
                 /\ g.signingTime = f.signingTime
                 /\ HasString(a) => g.digest = bytesToHexString(a.set[1].value)
           /\ a.object \notin {NID_pkcs9_signingTime, NID_pkcs9_messageDigest} =>
                 g.signingTime = f.signingTime /\ g.digest = f.digest

\* A child's constructor returns into the parent's emplace_back.
C9_ChildReturn ==
    (Running /\ Len(stack) > 1 /\ Len(stack') = Len(stack) - 1 /\ exc' = "none") =>
        LET f == stack[Len(stack) - 1]
            g == Top'
        IN /\ g.signingTime = f.signingTime
           /\ g.digest = f.digest
           /\ g.signerCert = f.signerCert
           /\ Len(g.counterSignatures) = Len(f.counterSignatures) + 1
           /\ SubSeq(g.counterSignatures, 1, Len(f.counterSignatures)) = f.counterSignatures

C9_LastOccurrence ==
    outcome = "ok" =>
        LET times == AttributesWith(RootInfo.auth_attr, NID_pkcs9_signingTime)
            digests == AttributesWith(RootInfo.auth_attr, NID_pkcs9_messageDigest)
        IN /\ times = <<>> => result.signingTime = <<>>
           /\ (times # <<>> /\ HasString(times[Len(times)])) =>
                 result.signingTime = parseDateTime(times[Len(times)].set[1].value)
           /\ digests = <<>> => result.digest = ""
           /\ (digests # <<>> /\ HasString(digests[Len(digests)])) =>
                 result.digest = bytesToHexString(digests[Len(digests)].set[1].value)

\* C9: each authenticated attribute changes only the field of its OID:
\* signingTime only signingTime (to parseDateTime of the value), messageDigest
\* only digest (to the hex of the value), countersignature only appends a
\* child, contentType and any other OID change nothing; and of several
\* signingTime or messageDigest attributes the last one decides the field.
C9_AttributeDispatch ==
    /\ [][C9_Iteration /\ C9_ChildReturn]_vars
    /\ [](C9_LastOccurrence)

C9_Witness ==
    /\ outcome = "ok"
    /\ Len(RootInfo.auth_attr) = 2
    /\ RootInfo.auth_attr[1].object = NID_pkcs9_signingTime
    /\ RootInfo.auth_attr[2].object = NID_pkcs9_signingTime
    /\ HasString(RootInfo.auth_attr[1])
    /\ result.signingTime = <<1950, 1, 2>>
    /\ parseDateTime(RootInfo.auth_attr[1].set[1].value) = <<2049, 12, 31>>


(***************************************************************************)
(* Claims about parseAttributes.                                           *)
(***************************************************************************)
\* The member that each recognized short name fills.
Recognized ==
    { <<"C", "country">>, <<"O", "organization">>, <<"OU", "organizationalUnit">>,
      <<"dnQualifier", "nameQualifier">>, <<"ST", "state">>, <<"CN", "commonName">>,
      <<"serialNumber", "serialNumber">>, <<"L", "locality">>, <<"title", "title">>,
      <<"SN", "surname">>, <<"GN", "givenName">>, <<"initials", "initials">>,
      <<"pseudonym", "pseudonym">>, <<"generationQualifier", "generationQualifier">>,
      <<"emailAddress", "emailAddress">> }

\* The value of the last of the first n entries that carries the short name.
LastOccurrence(name, n, key) ==
    LET at == {k \in 1..n : name[k].key = key}
    IN IF at = {} THEN ""
       ELSE name[CHOOSE k \in at : \A m \in at : m <= k].value

\* C7: after the entries before `entry` have been read, each of the 15
\* members holds the value of the last of them that carries its short name
\* (the default empty string if none does); in particular this is the
\* function's result, and entries with other short names change nothing.
C7_LastOccurrenceWins ==
    entry >= 1 =>
        /\ \A p \in Recognized :
              attributes[p[2]] = LastOccurrence(raw, entry - 1, p[1])
        /\ entry = Len(raw) + 1 => attributes = parseAttributes(raw)

C7_Witness ==
    /\ entry = Len(raw) + 1
    /\ Len(raw) = 2
    /\ raw[1].key = "SN" /\ raw[2].key = "SN"
    /\ raw[1].value = "x" /\ raw[2].value = "y"
    /\ attributes.surname = "y"


(***************************************************************************)
(* Claims about CertificateProcessor::getChain.                            *)
(***************************************************************************)
InPool(x) == \E k \in 1..Len(all_certs) : all_certs[k] = x
IssuersInPool(x) == {k \in 1..Len(all_certs) : all_certs[k].subject = x.issuer}

\* What both statements share: nothing for an absent signer; otherwise the
\* signer first, then each element the issuer of the one before, from the pool.
ChainShape ==
    /\ signer = NoX509 => chainOut = <<>>
    /\ signer # NoX509 =>
          /\ chainOut # <<>>
          /\ chainOut[1] = signer
          /\ \A k \in 2..Len(chainOut) :
                /\ chainOut[k].subject = chainOut[k - 1].issuer
                /\ InPool(chainOut[k])

\* C6 as stated: ... and the last element is self-signed or has no issuer in
\* the pool.
C6_ChainEndsAtRootOrGap ==
    chainPc = "done" =>
        /\ ChainShape
        /\ signer # NoX509 =>
              LET last == chainOut[Len(chainOut)] IN
              last.subject = last.issuer \/ IssuersInPool(last) = {}

\* C6 as amended: ... and the last element is self-signed or every issuer of
\* it in the pool is in the chain already.
C6_ChainEndsAtRootOrGapOrLoop ==
    chainPc = "done" =>
        /\ ChainShape
        /\ signer # NoX509 =>
              LET last == chainOut[Len(chainOut)] IN
              \/ last.subject = last.issuer
              \/ \A k \in IssuersInPool(last) :
                    \E j \in 1..Len(chainOut) : chainOut[j] = all_certs[k]

C6_Witness ==
    /\ chainPc = "done"
    /\ signer = Leaf
    /\ chainOut = <<Leaf, Ca, Root>>
    /\ ~is_valid

=============================================================================
